---- MODULE Spec2Model ----
(***************************************************************************)
(* Model of the realtime voice-agent session manager of LifeLine:          *)
(*   src/hooks/useElevenLabsAgent.ts  (the WebSocket hook, lines 1-430)    *)
(*   src/components/EmergencyCoach.tsx (directive parsing, call trigger)   *)
(*                                                                         *)
(* Everything runs on the browser's single event loop, so every handler    *)
(* (a click, a WebSocket event, a promise continuation, an audio "ended"   *)
(* event, a React effect pass) is one atomic action.  The places where the *)
(* code suspends (await getUserMedia, await of a playing segment) are the  *)
(* boundaries between actions.                                             *)
(***************************************************************************)
EXTENDS Integers, Sequences, FiniteSets, TLC

\* ------------------------------------------------------------------ bounds
MaxStarts == 2      \* start() calls that pass the configuration check
MaxSegs   == 3      \* audio chunks received
MaxMsgs   == 2      \* transcript entries appended
MaxClock  == 1      \* Date.now() takes the values 0..MaxClock
MaxSent   == 3      \* messages sent on one socket
MaxTokens == 3      \* tokens in a text given to parseAssistantMessage
MaxSamples == 2     \* samples in a buffer given to the audio helpers
MaxNumerator == 40  \* largest numerator of a floating-point sample
Grid == 16          \* denominator of the floating-point samples

\* --------------------------------------------------------------- constants
CALL_TAG  == "[[CALL_EMERGENCY_CONTACT]]"
LINKS_TAG == "[[LINKS]]"

AgentStatus == {"disconnected", "connecting", "connected", "listening", "speaking"}

\* WebSocket.readyState; "NONE" is a socket that start() has not created yet.
ReadyState == {"NONE", "CONNECTING", "OPEN", "CLOSING", "CLOSED"}

\* The values of data.type that handleWebSocketMessage switches on, plus a
\* frame that JSON.parse rejects ("malformed") and a type it does not know.
MsgTypes == {"conversation_initiation_metadata", "user_transcript", "agent_response",
             "audio", "audio_end", "interruption", "ping", "error", "unknown",
             "malformed"}

\* Texts carried by agent_response / user_transcript; "" is an absent or empty
\* field (the handler's `if (data....text)` is false for both).
AssistantTexts == {"", "ok", CALL_TAG \o "help"}
UserTexts      == {"", CALL_TAG \o "help"}

\* data.audio.chunk of an audio frame, a string written as the sequence of
\* its characters: base64 of one 16-bit sample ("AAA="), of no byte at all
\* (" "), of a single byte ("AA=="), and a string that is not base64 ("!").
AudioPayloads  == {<<"A", "A", "A", "=">>, <<" ">>, <<"A", "A", "=", "=">>, <<"!">>}

\* The chunk of an audio frame that has none or an empty one (the handler's
\* `if (data.audio?.chunk)` is false for both).
NoChunk == <<>>

Starts == 1..MaxStarts

\* The frames the hook sends: `type` and the payload field that matters.
InitFrame       == [type |-> "conversation_initiation_client_data", text |-> ""]
PongFrame       == [type |-> "pong", text |-> ""]
AudioFrame      == [type |-> "audio", text |-> "chunk"]
UserFrame(text) == [type |-> "user_message", text |-> text]

VARIABLES
  apiKey, agentId,        \* process.env.NEXT_PUBLIC_ELEVENLABS_* present?
  status,                 \* useState<AgentStatus>
  messages,               \* useState<TranscriptMessage[]>
  now,                    \* Date.now()
  nmsg,                   \* TranscriptMessage objects created so far
  wsRef,                  \* wsRef.current: 0 is null, k the socket of start k
  wsState,                \* readyState of every socket created
  mediaStreamRef,         \* mediaStreamRef.current: 0 is null
  micLive,                \* streams whose tracks have not been stopped
  audioContextRef,        \* audioContextRef.current: 0 is null
  ctxOpen,                \* capture AudioContexts not closed
  playbackContextRef,     \* playbackContextRef.current: 0 is null
  pbOpen,                 \* playback AudioContexts not closed
  npb,                    \* playback AudioContexts created so far
  audioQueueRef,          \* audioQueueRef.current
  isPlayingRef,           \* isPlayingRef.current
  playing,                \* one [seg, ctx] per playAudioChunk loop suspended in
                          \* `await new Promise(...)`: the segment it started
  nseg,                   \* audio chunks enqueued so far (segment k is the k-th)
  emptySegs,              \* the segments that hold no sample
  runStart,               \* history: nseg at the last interruption or stop()
  startPc,                \* where each start() call is
  error,                  \* EmergencyCoach's error state: what start() threw
  processedCallsRef,      \* processedCallsRef.current
  calls,                  \* history: callEmergencyContact invocations
  effectPending,          \* messages changed and the effect has not re-run yet
  sent,                   \* history: the messages sent on every socket, in order
  capStatus,              \* the `status` each start() call closed over
  pingsFrom,              \* history: the pings every socket has delivered
  arg,                    \* the argument of a helper function applied on its own
  result                  \* <<>>, or <<r>> once the helper has returned r

cfgVars   == <<apiKey, agentId>>
resVars   == <<wsRef, wsState, mediaStreamRef, micLive, audioContextRef, ctxOpen>>
pbVars    == <<playbackContextRef, pbOpen, npb, audioQueueRef, isPlayingRef, playing,
               nseg, emptySegs, runStart>>
txVars    == <<messages, nmsg, effectPending>>
fxVars    == <<processedCallsRef, calls>>
outVars   == <<sent, capStatus, pingsFrom>>
fnVars    == <<arg, result>>
vars      == <<cfgVars, status, now, resVars, pbVars, txVars, fxVars, startPc, error,
               outVars, fnVars>>

\* ------------------------------------------------------------------- Init
\* The hook and the component after their first render.
HookInit ==
  /\ apiKey \in BOOLEAN /\ agentId \in BOOLEAN
  /\ status = "disconnected"
  /\ messages = <<>> /\ nmsg = 0 /\ now = 0
  /\ wsRef = 0 /\ wsState = [k \in Starts |-> "NONE"]
  /\ mediaStreamRef = 0 /\ micLive = {}
  /\ audioContextRef = 0 /\ ctxOpen = {}
  /\ playbackContextRef = 0 /\ pbOpen = {} /\ npb = 0
  /\ audioQueueRef = <<>> /\ isPlayingRef = FALSE /\ playing = {}
  /\ nseg = 0 /\ emptySegs = {} /\ runStart = 0
  /\ startPc = [k \in Starts |-> "none"]
  /\ error = "null"
  /\ processedCallsRef = {} /\ calls = <<>> /\ effectPending = FALSE
  /\ sent = [k \in Starts |-> <<>>]
  /\ capStatus = [k \in Starts |-> "none"]
  /\ pingsFrom = [k \in Starts |-> 0]

Init == HookInit /\ arg = "" /\ result = <<>>

\* The clock advances between handlers.
Tick == /\ now < MaxClock
        /\ now' = now + 1
        /\ UNCHANGED <<cfgVars, fnVars, status, resVars, pbVars, txVars, fxVars, startPc, error,
                       outVars>>

\* ---------------------------------------------------------------- start()
\* Mutant: the check tests the API key alone.
configMissingKeyOnly == ~apiKey

\* `if (!apiKey || !agentId)`
configMissing == ~apiKey \/ ~agentId

\* The index of the next start() call that passes the configuration check.
nextStart == Cardinality({k \in Starts : startPc[k] # "none"}) + 1

\* Mutant: start() keeps the transcript of the session before.
messagesKeptByStart == messages

\* `setMessages([])`
messagesAfterStart == <<>>

\* start() up to `await setupMicrophoneCapture()`, called by handleStart,
\* which clears the error first and records what start() throws.
start ==
  IF configMissing
  THEN /\ error' = "ElevenLabs configuration missing"
       /\ UNCHANGED <<cfgVars, fnVars, status, now, resVars, pbVars, txVars, fxVars, startPc,
                      outVars>>
  ELSE /\ nextStart \in Starts
       /\ status' = "connecting"
       /\ messages' = messagesAfterStart
       /\ effectPending' = TRUE
       /\ startPc' = [startPc EXCEPT ![nextStart] = "mic"]
       /\ error' = "null"
       /\ capStatus' = [capStatus EXCEPT ![nextStart] = status]
       /\ UNCHANGED <<cfgVars, fnVars, now, nmsg, resVars, pbVars, fxVars, sent, pingsFrom>>

\* How the rest of start() can go: getUserMedia rejects; it resolves and
\* `new AudioContext` throws; both succeed and `new WebSocket` throws; all succeed.
StartOutcomes == {"micDenied", "ctxFail", "wsFail", "ok"}

\* start() from the resolution of getUserMedia to its end (the try block and
\* its catch).  Stream, capture context and socket of start k are named k.
startContinue(k, outcome) ==
  /\ startPc[k] = "mic"
  /\ LET gotMic == outcome # "micDenied"
         gotCtx == outcome \in {"wsFail", "ok"}
         gotWs  == outcome = "ok"
     IN /\ mediaStreamRef' = IF gotMic THEN k ELSE mediaStreamRef
        /\ micLive' = IF gotMic THEN micLive \cup {k} ELSE micLive
        /\ audioContextRef' = IF gotCtx THEN k ELSE audioContextRef
        /\ ctxOpen' = IF gotCtx THEN ctxOpen \cup {k} ELSE ctxOpen
        /\ wsRef' = IF gotWs THEN k ELSE wsRef
        /\ wsState' = IF gotWs THEN [wsState EXCEPT ![k] = "CONNECTING"] ELSE wsState
        /\ status' = IF gotWs THEN status ELSE "disconnected"
        /\ error' = IF gotWs THEN error ELSE "Failed to start"
        /\ startPc' = [startPc EXCEPT ![k] = "ended"]
  /\ UNCHANGED <<cfgVars, fnVars, now, pbVars, txVars, fxVars, outVars>>

\* ----------------------------------------------------------------- stop()
\* The hook's state as one value, so that stop() can be applied twice;
\* thrown says whether the call ended in an exception.
HookState ==
  [status |-> status, messages |-> messages,
   wsRef |-> wsRef, wsState |-> wsState,
   mediaStreamRef |-> mediaStreamRef, micLive |-> micLive,
   audioContextRef |-> audioContextRef, ctxOpen |-> ctxOpen,
   playbackContextRef |-> playbackContextRef, pbOpen |-> pbOpen,
   audioQueueRef |-> audioQueueRef, isPlayingRef |-> isPlayingRef,
   sent |-> sent, thrown |-> FALSE]

\* `wsRef.current?.readyState === WebSocket.OPEN` in hook state s.
transportOpen(s) == s.wsRef # 0 /\ s.wsState[s.wsRef] = "OPEN"

\* Mutant: stop() clears the socket handle without closing the socket.
wsCloseSkipped(rs) == rs

\* WebSocket.close(): starts the closing handshake unless already closing/closed.
wsClose(rs) == IF rs \in {"CONNECTING", "OPEN"} THEN "CLOSING" ELSE rs

\* The statements of stop(), each resource behind its null check.
teardown(s) ==
  [s EXCEPT
     !.micLive            = IF s.mediaStreamRef # 0 THEN @ \ {s.mediaStreamRef} ELSE @,
     !.mediaStreamRef     = 0,
     !.ctxOpen            = IF s.audioContextRef # 0 THEN @ \ {s.audioContextRef} ELSE @,
     !.audioContextRef    = 0,
     !.pbOpen             = IF s.playbackContextRef # 0 THEN @ \ {s.playbackContextRef} ELSE @,
     !.playbackContextRef = 0,
     !.wsState            = IF s.wsRef # 0 THEN [@ EXCEPT ![s.wsRef] = wsClose(@)] ELSE @,
     !.wsRef              = 0,
     !.audioQueueRef      = <<>>,
     !.isPlayingRef       = FALSE,
     !.status             = "disconnected"]

\* Mutant: the microphone is dereferenced without its null check, so stop()
\* throws on its first statement when no stream is held.
stopResultUnguarded(s) ==
  IF s.mediaStreamRef = 0 THEN [s EXCEPT !.thrown = TRUE] ELSE teardown(s)

\* What stop() makes of hook state s.  Every dereference is behind a null
\* check and none of the calls throws, so thrown stays as it was.
stopResult(s) == teardown(s)

Range(q) == {q[i] : i \in DOMAIN q}

stop ==
  LET t == stopResult(HookState) IN
  /\ status' = t.status
  /\ messages' = t.messages
  /\ wsRef' = t.wsRef /\ wsState' = t.wsState
  /\ mediaStreamRef' = t.mediaStreamRef /\ micLive' = t.micLive
  /\ audioContextRef' = t.audioContextRef /\ ctxOpen' = t.ctxOpen
  /\ playbackContextRef' = t.playbackContextRef /\ pbOpen' = t.pbOpen
  /\ audioQueueRef' = t.audioQueueRef /\ isPlayingRef' = t.isPlayingRef
  /\ runStart' = nseg
  /\ UNCHANGED <<cfgVars, fnVars, now, nmsg, effectPending, npb, playing, nseg, emptySegs,
                 fxVars, startPc, error, outVars>>

\* ------------------------------------------------------ transport events
\* Mutant: ws.onopen sends nothing.
onOpenSendsNothing == <<>>

\* What ws.onopen sends, in order.
onOpenSends == <<InitFrame>>

\* ws.onopen: send the initiation message, setStatus("connected").
wsOnOpen(k) ==
  /\ wsState[k] = "CONNECTING"
  /\ wsState' = [wsState EXCEPT ![k] = "OPEN"]
  /\ sent' = [sent EXCEPT ![k] = @ \o onOpenSends]
  /\ status' = "connected"
  /\ UNCHANGED <<cfgVars, fnVars, now, wsRef, mediaStreamRef, micLive, audioContextRef, ctxOpen,
                 pbVars, txVars, fxVars, startPc, error, capStatus, pingsFrom>>

\* What ws.onerror and ws.onclose do to the status.
onTransportDown == "disconnected"

\* The connection of socket k fails: the browser sets readyState CLOSED and
\* fires error, then close, in one task; both handlers only set the status.
wsOnError(k) ==
  /\ wsState[k] \in {"CONNECTING", "OPEN", "CLOSING"}
  /\ wsState' = [wsState EXCEPT ![k] = "CLOSED"]
  /\ status' = onTransportDown
  /\ UNCHANGED <<cfgVars, fnVars, now, wsRef, mediaStreamRef, micLive, audioContextRef, ctxOpen,
                 pbVars, txVars, fxVars, startPc, error, outVars>>

\* Socket k closes (the remote closed it, or the handshake stop() began ends).
wsOnClose(k) ==
  /\ wsState[k] \in {"CONNECTING", "OPEN", "CLOSING"}
  /\ wsState' = [wsState EXCEPT ![k] = "CLOSED"]
  /\ status' = onTransportDown
  /\ UNCHANGED <<cfgVars, fnVars, now, wsRef, mediaStreamRef, micLive, audioContextRef, ctxOpen,
                 pbVars, txVars, fxVars, startPc, error, outVars>>

\* ---------------------------------------------------------- audio decode
\* The characters atob accepts besides padding and white space.
Base64Alphabet == "ABCDEFGHIJKLMNOPQRSTUVWXYZabcdefghijklmnopqrstuvwxyz0123456789+/"

\* The characters of the alphabet, by their values plus one.
Base64Chars == [i \in 1..Len(Base64Alphabet) |-> SubSeq(Base64Alphabet, i, i)]

\* The set of the characters of the alphabet.
Base64Set == {Base64Chars[i] : i \in DOMAIN Base64Chars}

\* The white space that atob removes.
AsciiWhitespace == {" ", "\n", "\t", "\r"}

\* The value of the base64 character c.
sextet(c) == (CHOOSE i \in DOMAIN Base64Chars : Base64Chars[i] = c) - 1

\* atob(b64) for the characters b64 of a string, as the bytes of the binary
\* string it returns, or thrown: white space is
\* removed, one or two "=" are removed from the end of a string whose length
\* is a multiple of four, a length of 1 modulo 4 or a foreign character is an
\* error, and every four characters give three bytes (leftover bits dropped).
atob(b64) ==
  LET t == SelectSeq(b64, LAMBDA c : c \notin AsciiWhitespace)
      n == Len(t)
      u == IF n % 4 = 0 /\ n >= 2 /\ t[n - 1] = "=" /\ t[n] = "="
           THEN SubSeq(t, 1, n - 2)
           ELSE IF n % 4 = 0 /\ n >= 1 /\ t[n] = "="
                THEN SubSeq(t, 1, n - 1)
                ELSE t
      bad == Len(u) % 4 = 1 \/ \E i \in 1..Len(u) : u[i] \notin Base64Set
      six(i) == IF i <= Len(u) THEN sextet(u[i]) ELSE 0
      byte(j) == LET g == 4 * ((j - 1) \div 3)
                     r == (j - 1) % 3
                 IN CASE r = 0 -> six(g + 1) * 4 + six(g + 2) \div 16
                      [] r = 1 -> (six(g + 2) % 16) * 16 + six(g + 3) \div 4
                      [] r = 2 -> (six(g + 3) % 4) * 64 + six(g + 4)
  IN [thrown |-> bad,
      bytes  |-> IF bad THEN <<>> ELSE [j \in 1..((Len(u) * 6) \div 8) |-> byte(j)]]

\* A Float32Array element that holds num / 0x8000.
Float(num) == [num |-> num, den |-> 32768]

\* Mutant: the bytes of a sample are read high byte first.
int16FromBytesBigEndian(first, second) ==
  LET u == 256 * first + second
  IN IF u >= 32768 THEN u - 65536 ELSE u

\* The element of an Int16Array over two bytes of a buffer (little-endian,
\* two's complement).
int16FromBytes(first, second) ==
  LET u == first + 256 * second
  IN IF u >= 32768 THEN u - 65536 ELSE u

\* base64ToFloat32(base64): the samples, or thrown; `new Int16Array` of a
\* buffer with an odd number of bytes is a RangeError.
base64ToFloat32(base64) ==
  LET a   == atob(base64)
      bad == a.thrown \/ Len(a.bytes) % 2 = 1
  IN [thrown  |-> bad,
      samples |-> IF bad THEN <<>>
                  ELSE [i \in 1..(Len(a.bytes) \div 2) |->
                          Float(int16FromBytes(a.bytes[2 * i - 1], a.bytes[2 * i]))]]

\* ---------------------------------------------------------- audio encode
\* new Uint8Array(int16Array.buffer): two bytes per sample, low byte first.
uint8Array(int16Array) ==
  [j \in 1..(2 * Len(int16Array)) |->
     LET v == int16Array[(j + 1) \div 2]
         u == IF v < 0 THEN v + 65536 ELSE v
     IN IF j % 2 = 1 THEN u % 256 ELSE u \div 256]

\* The concatenation of a sequence of sequences.
RECURSIVE concat(_)
concat(parts) == IF parts = <<>> THEN <<>> ELSE Head(parts) \o concat(Tail(parts))

\* btoa(binary) for the binary string with the given bytes, as the
\* characters of the string it returns: three bytes give
\* four characters, a last group of one or two bytes is padded with "=".
btoa(bytes) ==
  LET n       == Len(bytes)
      at(j)   == IF j <= n THEN bytes[j] ELSE 0
      char(v) == Base64Chars[v + 1]
      group(g) ==
        LET x == at(3 * g + 1)
            y == at(3 * g + 2)
            z == at(3 * g + 3)
        IN <<char(x \div 4),
             char((x % 4) * 16 + y \div 16),
             IF 3 * g + 2 <= n THEN char((y % 16) * 4 + z \div 64) ELSE "=",
             IF 3 * g + 3 <= n THEN char(z % 64) ELSE "=">>
  IN concat([g \in 1..((n + 2) \div 3) |-> group(g - 1)])

\* int16ToBase64(int16Array)
int16ToBase64(int16Array) == btoa(uint8Array(int16Array))

\* ------------------------------------------------- floating to fixed point
\* Numbers of the kind the conversion computes with: a finite num / den
\* (den > 0), NaN, Infinity or -Infinity.
Finite(num, den) == [kind |-> "finite", num |-> num, den |-> den]
NaN == [kind |-> "nan", num |-> 0, den |-> 1]
Infinity == [kind |-> "inf", num |-> 0, den |-> 1]
MinusInfinity == [kind |-> "-inf", num |-> 0, den |-> 1]

\* a < b; false when either is NaN.
lessThan(a, b) ==
  CASE a.kind = "nan" \/ b.kind = "nan" -> FALSE
    [] a.kind = "-inf" -> b.kind # "-inf"
    [] a.kind = "inf"  -> FALSE
    [] b.kind = "inf"  -> TRUE
    [] b.kind = "-inf" -> FALSE
    [] OTHER -> a.num * b.den < b.num * a.den

\* Math.min(a, b) and Math.max(a, b): NaN when either is NaN.
MathMin(a, b) ==
  IF a.kind = "nan" \/ b.kind = "nan" THEN NaN
  ELSE IF lessThan(b, a) THEN b ELSE a

MathMax(a, b) ==
  IF a.kind = "nan" \/ b.kind = "nan" THEN NaN
  ELSE IF lessThan(a, b) THEN b ELSE a

\* a * k for an integer k > 0.
times(a, k) == IF a.kind = "finite" THEN Finite(a.num * k, a.den) ELSE a

\* The value an Int16Array element has after x is stored in it: NaN and the
\* infinities give 0, any other number is truncated toward zero and taken
\* modulo 2^16 into -32768..32767.
ToInt16(x) ==
  IF x.kind # "finite" THEN 0
  ELSE LET t == IF x.num >= 0 THEN x.num \div x.den ELSE -((-x.num) \div x.den)
           u == t % 65536
       IN IF u >= 32768 THEN u - 65536 ELSE u

\* Mutant: the sample is scaled as it comes.
clampNothing(v) == v

\* Math.max(-1, Math.min(1, v))
clamp(v) == MathMax(Finite(-1, 1), MathMin(Finite(1, 1), v))

\* float32ToInt16(float32Array)
float32ToInt16(float32Array) ==
  [i \in 1..Len(float32Array) |->
     LET s == clamp(float32Array[i])
     IN ToInt16(IF lessThan(s, Finite(0, 1)) THEN times(s, 32768) ELSE times(s, 32767))]

\* ------------------------------------------------------- audio playback
\* `if (isPlayingRef.current) return;`
loopRunning == isPlayingRef

\* One pass of the drain loop's body for the queue q: shift the head, start a
\* source for it on the current playback context c and suspend until it ends.
\* A null context makes createBuffer throw, and so does a segment of length
\* zero (one of empties): the loop dies there and the flag stays as it is.
drain(q, c, others, empties) ==
  /\ audioQueueRef' = Tail(q)
  /\ playing' = IF c = 0 \/ Head(q) \in empties
                THEN others
                ELSE others \cup {[seg |-> Head(q), ctx |-> c]}

\* Mutant: playAudioChunk uses the playback context as it finds it.
playbackContextAsIs(c, n) == c

\* `if (!playbackContextRef.current) playbackContextRef.current = new
\* AudioContext(...)`: the context afterwards, c being the one before and n
\* the number of playback contexts created so far.
ensurePlaybackContext(c, n) == IF c = 0 THEN n + 1 ELSE c

\* playAudioChunk(audioData), run to its first await (or to its return);
\* samples is audioData.length.
playAudioChunk(samples) ==
  /\ nseg < MaxSegs
  /\ emptySegs' = IF samples = 0 THEN emptySegs \cup {nseg + 1} ELSE emptySegs
  /\ LET c     == ensurePlaybackContext(playbackContextRef, npb)
         fresh == c # playbackContextRef
         q     == Append(audioQueueRef, nseg + 1)
     IN /\ playbackContextRef' = c
        /\ pbOpen' = IF fresh THEN pbOpen \cup {c} ELSE pbOpen
        /\ npb' = IF fresh THEN npb + 1 ELSE npb
        /\ nseg' = nseg + 1
        /\ IF loopRunning
           THEN /\ audioQueueRef' = q
                /\ UNCHANGED <<isPlayingRef, playing>>
           ELSE /\ isPlayingRef' = TRUE
                /\ drain(q, c, playing, emptySegs')
  /\ UNCHANGED runStart

\* source.onended of the segment p resolves the promise and the loop that
\* started p goes on: the next pass of `while (queue.length > 0)`, or the exit.
segmentEnded(p) ==
  /\ p \in playing
  /\ IF audioQueueRef # <<>>
     THEN /\ drain(audioQueueRef, playbackContextRef, playing \ {p}, emptySegs)
          /\ UNCHANGED isPlayingRef
     ELSE /\ isPlayingRef' = FALSE
          /\ playing' = playing \ {p}
          /\ UNCHANGED audioQueueRef
  /\ UNCHANGED <<cfgVars, fnVars, status, now, resVars, playbackContextRef, pbOpen, npb, nseg,
                 emptySegs, runStart, txVars, fxVars, startPc, error, outVars>>

\* ------------------------------------------------------ inbound messages
\* `id: `${role}-${Date.now()}``; ref is the identity of the message object.
newMessage(role, text) ==
  [id |-> <<role, now>>, role |-> role, text |-> text, ref |-> nmsg + 1]

\* Mutant: setMessages((prev) => [newMessage, ...prev])
appendMessageInFront(role, text) ==
  /\ nmsg < MaxMsgs
  /\ messages' = <<newMessage(role, text)>> \o messages
  /\ nmsg' = nmsg + 1
  /\ effectPending' = TRUE

\* setMessages((prev) => [...prev, newMessage])
appendMessage(role, text) ==
  /\ nmsg < MaxMsgs
  /\ messages' = Append(messages, newMessage(role, text))
  /\ nmsg' = nmsg + 1
  /\ effectPending' = TRUE

\* Mutant: the interruption case flushes the queue and leaves the status.
onInterruptionKeepsStatus == status

\* The status after the interruption case.
onInterruption == "listening"

\* Mutant: the agent_response case leaves the status as it is.
onAgentResponseKeepsStatus == status

\* The status after the agent_response case, with or without a text.
onAgentResponse == "speaking"

\* Mutant: an audio chunk marks the assistant as speaking.
onAudioSpeaks == "speaking"

\* The status after the audio case, which never calls setStatus.
onAudio == status

\* Mutant: an error frame ends the session.
onErrorFrameDisconnects == "disconnected"

\* The status after the error case, which only logs.
onErrorFrame == status

\* handleWebSocketMessage for a frame of the given type; text is the payload
\* field the case reads ("" when absent or empty).
handleWebSocketMessage(type, text) ==
  /\ CASE type = "conversation_initiation_metadata" ->
            /\ status' = "listening"
            /\ UNCHANGED <<pbVars, txVars>>
       [] type = "user_transcript" ->
            /\ IF text # "" THEN appendMessage("user", text) ELSE UNCHANGED txVars
            /\ UNCHANGED <<status, pbVars>>
       [] type = "agent_response" ->
            /\ IF text # "" THEN appendMessage("assistant", text) ELSE UNCHANGED txVars
            /\ status' = onAgentResponse
            /\ UNCHANGED pbVars
       [] type = "audio" ->
            /\ IF text # NoChunk /\ ~base64ToFloat32(text).thrown
               THEN playAudioChunk(Len(base64ToFloat32(text).samples))
               ELSE UNCHANGED pbVars
            /\ status' = onAudio
            /\ UNCHANGED txVars
       [] type = "audio_end" ->
            /\ status' = "listening"
            /\ UNCHANGED <<pbVars, txVars>>
       [] type = "interruption" ->
            /\ audioQueueRef' = <<>>
            /\ status' = onInterruption
            /\ runStart' = nseg
            /\ UNCHANGED <<playbackContextRef, pbOpen, npb, isPlayingRef, playing, nseg,
                           emptySegs, txVars>>
       [] type = "error" ->
            /\ status' = onErrorFrame
            /\ UNCHANGED <<pbVars, txVars>>
       [] OTHER ->
            UNCHANGED <<status, pbVars, txVars>>
  /\ IF type = "ping" /\ transportOpen(HookState)
     THEN /\ Len(sent[wsRef]) < MaxSent
          /\ sent' = [sent EXCEPT ![wsRef] = Append(@, PongFrame)]
     ELSE UNCHANGED sent
  /\ UNCHANGED <<cfgVars, fnVars, now, resVars, fxVars, startPc, error, capStatus>>

\* ws.onmessage = handleWebSocketMessage: message events are delivered only
\* while the socket is OPEN.
wsOnMessage(k, type, text) ==
  /\ wsState[k] = "OPEN"
  /\ handleWebSocketMessage(type, text)
  /\ IF type = "ping"
     THEN /\ pingsFrom[k] < MaxSent
          /\ pingsFrom' = [pingsFrom EXCEPT ![k] = @ + 1]
     ELSE UNCHANGED pingsFrom

\* Mutant: sendUserText without its readyState check.  send() throws on a
\* null handle and on a socket still CONNECTING, and discards the data on a
\* socket that is CLOSING or CLOSED.
sendUserTextUnguarded(s, m) ==
  IF s.wsRef = 0 \/ s.wsState[s.wsRef] = "CONNECTING"
  THEN [s EXCEPT !.thrown = TRUE]
  ELSE [s EXCEPT !.sent[s.wsRef] = IF s.wsState[s.wsRef] = "OPEN"
                                  THEN Append(@, UserFrame(m.text)) ELSE @,
                 !.messages = Append(@, m)]

\* Mutant: sendUserText sends the text and leaves the transcript to the echo.
sendUserTextAwaitsEcho(s, m) ==
  IF ~transportOpen(s)
  THEN s
  ELSE [s EXCEPT !.sent[s.wsRef] = Append(@, UserFrame(m.text))]

\* What sendUserText makes of hook state s, m being the entry it would add:
\* nothing unless the socket is open; then one send and one append.
sendUserTextResult(s, m) ==
  IF ~transportOpen(s)
  THEN s
  ELSE [s EXCEPT !.sent[s.wsRef] = Append(@, UserFrame(m.text)),
                 !.messages = Append(@, m)]

\* sendUserText(text)
sendUserText(text) ==
  /\ transportOpen(HookState) => nmsg < MaxMsgs
  /\ LET t == sendUserTextResult(HookState, newMessage("user", text))
     IN /\ messages' = t.messages
        /\ sent' = t.sent
        /\ nmsg' = nmsg + (Len(t.messages) - Len(messages))
        /\ effectPending' = (effectPending \/ t.messages # messages)
  /\ UNCHANGED <<cfgVars, fnVars, status, now, resVars, pbVars, fxVars, startPc, error,
                 capStatus, pingsFrom>>

\* ------------------------------------------------------ microphone capture
\* Mutant: the callback has no status test.
statusAllowsCaptureAlways(k) == TRUE

\* `status !== "listening" && status !== "connected"` negated, in the callback
\* of the pipeline start k built: `status` is the constant of the render
\* whose start() built the pipeline.
statusAllowsCapture(k) == capStatus[k] \in {"listening", "connected"}

\* processor.onaudioprocess of the capture pipeline start k built: it fires
\* while that pipeline's AudioContext is open.
onaudioprocess(k) ==
  /\ k \in ctxOpen
  /\ IF transportOpen(HookState) /\ statusAllowsCapture(k)
     THEN /\ Len(sent[wsRef]) < MaxSent
          /\ sent' = [sent EXCEPT ![wsRef] = Append(@, AudioFrame)]
     ELSE UNCHANGED sent
  /\ UNCHANGED <<cfgVars, fnVars, status, now, resVars, pbVars, txVars, fxVars, startPc, error,
                 capStatus, pingsFrom>>

\* ----------------------------------------------------- directive parsing
\* Strings are sequences of characters: Len, \o and SubSeq apply to them.
startsWith(t, p) == Len(t) >= Len(p) /\ SubSeq(t, 1, Len(p)) = p

\* String.prototype.indexOf, 1-based; 0 when p does not occur in t.
indexOf(t, p) ==
  LET hits == {i \in 1..(Len(t) - Len(p) + 1) : SubSeq(t, i, i + Len(p) - 1) = p}
  IN IF hits = {} THEN 0 ELSE CHOOSE i \in hits : \A j \in hits : i <= j

isSpace(c) == c \in {" ", "\n", "\t"}

\* String.prototype.trim
trim(t) ==
  LET keep == {i \in 1..Len(t) : ~isSpace(SubSeq(t, i, i))}
  IN IF keep = {} THEN ""
     ELSE SubSeq(t, CHOOSE i \in keep : \A j \in keep : i <= j,
                    CHOOSE i \in keep : \A j \in keep : i >= j)

\* String.prototype.split(sep) for a one-character separator.
RECURSIVE split(_, _)
split(t, sep) ==
  LET i == indexOf(t, sep)
  IN IF i = 0 THEN <<t>>
     ELSE <<SubSeq(t, 1, i - 1)>> \o split(SubSeq(t, i + 1, Len(t)), sep)

\* Array.prototype.join
RECURSIVE join(_, _)
join(parts, sep) ==
  IF parts = <<>> THEN ""
  ELSE IF Len(parts) = 1 THEN parts[1]
  ELSE parts[1] \o sep \o join(Tail(parts), sep)

\* Mutant: the label is everything before the last colon.
parseResourceAtLastColon(part) ==
  LET bits == split(part, ":")
      n    == Len(bits)
  IN [label       |-> IF n = 1 THEN trim(bits[1])
                      ELSE trim(join(SubSeq(bits, 1, n - 1), ":")),
      description |-> IF n = 1 THEN "" ELSE trim(bits[n])]

\* resourceParts.map(...): label before the first colon, the rest the description.
parseResource(part) ==
  LET bits == split(part, ":")
  IN [label       |-> IF trim(bits[1]) = "" THEN "Resource" ELSE trim(bits[1]),
      description |-> trim(join(Tail(bits), ":"))]

\* filter((p) => p.trim()) then map
RECURSIVE parseResources(_)
parseResources(parts) ==
  IF parts = <<>> THEN <<>>
  ELSE IF trim(parts[1]) = "" THEN parseResources(Tail(parts))
  ELSE <<parseResource(parts[1])>> \o parseResources(Tail(parts))

\* Mutant: the tag is looked for anywhere in the text.
hasCallTagAnywhere(rawText) == indexOf(rawText, CALL_TAG) > 0

\* text.startsWith("[[CALL_EMERGENCY_CONTACT]]")
hasCallTag(rawText) == startsWith(rawText, CALL_TAG)

\* Mutant: the text is trimmed whether or not the tag was there.
stripCallTagTrimsAlways(rawText) ==
  trim(IF hasCallTag(rawText)
       THEN SubSeq(rawText, Len(CALL_TAG) + 1, Len(rawText))
       ELSE rawText)

\* `text = text.replace("[[CALL_EMERGENCY_CONTACT]]", "").trim()` under the
\* startsWith test: the first occurrence is the prefix.
stripCallTag(rawText) ==
  IF hasCallTag(rawText)
  THEN trim(SubSeq(rawText, Len(CALL_TAG) + 1, Len(rawText)))
  ELSE rawText

\* parseAssistantMessage(rawText)
parseAssistantMessage(rawText) ==
  LET triggerCall == hasCallTag(rawText)
      text1 == stripCallTag(rawText)
      \* /\[\[LINKS\]\](.+)$/s : the first marker with at least one character after it
      at    == indexOf(text1, LINKS_TAG)
      found == at > 0 /\ at + Len(LINKS_TAG) <= Len(text1)
      linksSection == trim(SubSeq(text1, at + Len(LINKS_TAG), Len(text1)))
  IN [text        |-> IF found THEN trim(SubSeq(text1, 1, at - 1)) ELSE text1,
      resources   |-> IF found THEN parseResources(split(linksSection, ";")) ELSE <<>>,
      triggerCall |-> triggerCall]

\* Mutant: the entries of both roles are parsed.
parsedAnyRole(msg) == parseAssistantMessage(msg.text)

\* parsedMessages (useMemo): only assistant entries are parsed.
parsed(msg) ==
  IF msg.role = "assistant"
  THEN parseAssistantMessage(msg.text)
  ELSE [text |-> msg.text, resources |-> <<>>, triggerCall |-> FALSE]

\* ------------------------------------------------- call-trigger effect
\* `parsed.triggerCall && !processedCallsRef.current.has(original.id)`
mustCall(msg, seen) == parsed(msg).triggerCall /\ msg.id \notin seen

\* Mutant: the identifier is not recorded when the call is issued.
dedupInsertLater(seen, id) == seen

\* `processedCallsRef.current.add(original.id)`, which runs before the call
\* is made, in the same synchronous callback as the test.
dedupInsert(seen, id) == seen \cup {id}

\* Mutant: the effect walks the transcript from its last entry to its first.
forEachIndexReversed(i, n) == n + 1 - i

\* The index of the entry Array.prototype.forEach visits in its i-th call on
\* an array of n entries.
forEachIndex(i, n) == i

\* parsedMessages.forEach(...) from its i-th call on; acc is the dedup set and
\* the calls issued so far.  callEmergencyContact runs to its fetch at once.
\* pass tells the effect passes apart: the calls issued before this one began.
RECURSIVE forEachFrom(_, _)
forEachFrom(i, acc) ==
  IF i > Len(messages) THEN acc
  ELSE LET msg == messages[forEachIndex(i, Len(messages))]
       IN IF mustCall(msg, acc.seen)
          THEN forEachFrom(i + 1,
                 [acc EXCEPT
                    !.seen  = dedupInsert(@, msg.id),
                    !.calls = Append(@, [ref |-> msg.ref, id |-> msg.id,
                                         summary |-> parsed(msg).text,
                                         pass |-> acc.pass,
                                         pc |-> "fetching",
                                         success |-> FALSE,
                                         thrown |-> FALSE])])
          ELSE forEachFrom(i + 1, acc)

\* The useEffect on [parsedMessages, sessionId]: it re-runs over the whole
\* transcript after every render in which messages changed.
callTriggerEffect ==
  /\ effectPending
  /\ LET r == forEachFrom(1, [seen |-> processedCallsRef, calls |-> calls,
                              pass |-> Len(calls)])
     IN /\ processedCallsRef' = r.seen
        /\ calls' = r.calls
  /\ effectPending' = FALSE
  /\ UNCHANGED <<cfgVars, fnVars, status, now, resVars, pbVars, messages, nmsg, startPc, error,
                 outVars>>

\* ------------------------------------------- the side effects complete
\* What the fetch of /api/call-contact can do: answer {success: true}, answer
\* a JSON body without it (the route's error answers), answer a body that is
\* not JSON, or reject.
CallOutcomes == {"success", "refused", "notJson", "networkError"}

\* What the fetch of /api/log-event can do; logEvent never reads the answer.
LogOutcomes == {"ok", "httpError", "networkError"}

\* Mutant: callEmergencyContact without its try/catch.
callEmergencyContactUncaught(outcome) ==
  [success |-> outcome = "success",
   thrown  |-> outcome \in {"notJson", "networkError"}]

\* What the promise of callEmergencyContact settles to: the catch turns every
\* failure into false.
callEmergencyContact(outcome) ==
  [success |-> outcome = "success", thrown |-> FALSE]

\* What the promise of logEvent settles to: the catch swallows every failure.
logEvent(outcome) == [thrown |-> FALSE]

\* The i-th call's promise settles and its .then callback starts logEvent
\* (a rejection would skip the callback and go unhandled).
callContactSettles(i, outcome) ==
  /\ i \in DOMAIN calls /\ calls[i].pc = "fetching"
  /\ LET r == callEmergencyContact(outcome)
     IN calls' = [calls EXCEPT ![i].pc = IF r.thrown THEN "done" ELSE "logging",
                               ![i].success = r.success,
                               ![i].thrown = r.thrown]
  /\ UNCHANGED <<cfgVars, fnVars, status, now, resVars, pbVars, txVars, processedCallsRef,
                 startPc, error, outVars>>

\* The logEvent started for the i-th call settles.
logEventSettles(i, outcome) ==
  /\ i \in DOMAIN calls /\ calls[i].pc = "logging"
  /\ calls' = [calls EXCEPT ![i].pc = "done",
                            ![i].thrown = logEvent(outcome).thrown]
  /\ UNCHANGED <<cfgVars, fnVars, status, now, resVars, pbVars, txVars, processedCallsRef,
                 startPc, error, outVars>>

\* EmergencyCoach renders the start button only while status is disconnected.
isActive == status # "disconnected"

\* Frames that carry no transcript text and no audio chunk.
ControlFrames ==
  {<<ty, "">> : ty \in MsgTypes \ {"ping", "audio"}} \cup {<<"audio", NoChunk>>}

\* The session's lifecycle: the buttons, the rest of start(), the transport.
Lifecycle ==
  \/ (~isActive /\ start)
  \/ \E k \in Starts, o \in StartOutcomes : startContinue(k, o)
  \/ stop
  \/ \E k \in Starts : wsOnOpen(k)
  \/ \E k \in Starts : wsOnError(k)
  \/ \E k \in Starts : wsOnClose(k)
  \/ \E k \in Starts, f \in ControlFrames : wsOnMessage(k, f[1], f[2])

\* Audio chunks arriving and segments ending.
Playback ==
  \/ \E k \in Starts, a \in AudioPayloads : wsOnMessage(k, "audio", a)
  \/ \E p \in playing : segmentEnded(p)

\* Text arriving or typed, the clock that names the entries, the call effect.
Transcript ==
  \/ Tick
  \/ \E k \in Starts, tx \in AssistantTexts \ {""} : wsOnMessage(k, "agent_response", tx)
  \/ \E k \in Starts, tx \in UserTexts \ {""} : wsOnMessage(k, "user_transcript", tx)
  \/ \E tx \in UserTexts \ {""} : (isActive /\ sendUserText(tx))
  \/ callTriggerEffect

\* What goes out on the sockets besides the initiation message: the answers
\* to pings, the capture callback, typed text.
Outbound ==
  \/ \E k \in Starts : wsOnMessage(k, "ping", "")
  \/ \E k \in Starts : onaudioprocess(k)
  \/ \E tx \in UserTexts \ {""} : sendUserText(tx)

\* The collaborators answer, or fail to.
SideEffects ==
  \/ \E i \in 1..MaxMsgs, o \in CallOutcomes : callContactSettles(i, o)
  \/ \E i \in 1..MaxMsgs, o \in LogOutcomes : logEventSettles(i, o)

Next == Lifecycle \/ Playback \/ Transcript \/ Outbound \/ SideEffects

\* The whole program.
Spec == Init /\ [][Next]_vars

\* The program with no transcript text arriving: the playback scheduler and
\* the lifecycle read nothing of the transcript.
SpecPlayback == Init /\ [][Lifecycle \/ Playback]_vars

\* Every segment a loop may be suspended on, with the context it plays on.
Sources == [seg : 1..MaxSegs, ctx : 1..MaxSegs]

\* SpecPlayback with the audio hardware doing its work: a source started on
\* a playback context that is still open does end, and its onended runs.
\* Nothing obliges the user to press stop or the remote to send anything.
SpecPlaybackFair ==
  SpecPlayback /\ \A p \in Sources : WF_vars(p.ctx \in pbOpen /\ segmentEnded(p))

\* The program with no audio chunk arriving: the transcript and the call
\* effect read nothing of the playback scheduler.
SpecTranscript == Init /\ [][Lifecycle \/ Transcript]_vars

\* SpecTranscript with the telephony and logging requests completing.
SpecSideEffects == Init /\ [][Lifecycle \/ Transcript \/ SideEffects]_vars

\* The program with neither transcript text nor audio chunks arriving: what
\* it sends reads nothing of either.
SpecOutbound == Init /\ [][Lifecycle \/ Outbound]_vars

\* Transcripts of the user's speech arriving.
UserTranscripts ==
  \E k \in Starts, tx \in UserTexts \ {""} : wsOnMessage(k, "user_transcript", tx)

\* The program with audio chunks and transcripts of the user's speech
\* arriving, and nothing else that writes the transcript.
SpecInbound == Init /\ [][Lifecycle \/ Playback \/ UserTranscripts]_vars

\* ------------------------------------------- helper functions on their own
\* The pieces assistant texts are made of here: the two tags, a letter, the
\* separators of the links section, white space.
Tokens == {CALL_TAG, LINKS_TAG, "a", ":", ";", " "}

\* The README's example of a message with both tags.
ReadmeExample ==
  "[[CALL_EMERGENCY_CONTACT]]Patient unconscious[[LINKS]]CPR Guide:https://x;Poison Control:1-800-222-1222"

\* Every text of at most MaxTokens tokens, and the example.
ParseTexts ==
  {join(ts, "") : ts \in UNION {[1..n -> Tokens] : n \in 0..MaxTokens}}
    \cup {ReadmeExample}

\* parseAssistantMessage is applied to one text.
applyParse ==
  /\ result = <<>>
  /\ result' = <<parseAssistantMessage(arg)>>
  /\ UNCHANGED <<cfgVars, arg, status, now, resVars, pbVars, txVars, fxVars, startPc,
                 error, outVars>>

InitParse == HookInit /\ arg \in ParseTexts /\ result = <<>>

SpecParse == InitParse /\ [][applyParse]_vars

\* Sample values around the ends of the 16-bit range, around zero and
\* around the byte boundary.
SampleValues == {-32768, -32767, -257, -256, -1, 0, 1, 255, 256, 32766, 32767}

\* The Int16Arrays of at most MaxSamples such samples.
SampleBuffers == UNION {[1..n -> SampleValues] : n \in 0..MaxSamples}

\* A buffer is encoded with int16ToBase64 and the string decoded again.
applyCodec ==
  /\ result = <<>>
  /\ result' = <<base64ToFloat32(int16ToBase64(arg))>>
  /\ UNCHANGED <<cfgVars, arg, status, now, resVars, pbVars, txVars, fxVars, startPc,
                 error, outVars>>

InitCodec == HookInit /\ arg \in SampleBuffers /\ result = <<>>

SpecCodec == InitCodec /\ [][applyCodec]_vars

\* Floating-point samples: the multiples of 1 / Grid up to MaxNumerator / Grid
\* in size, which reach beyond -1 and 1, and the three values that are not
\* finite.
FloatValues ==
  {Finite(n, Grid) : n \in -MaxNumerator..MaxNumerator} \cup {NaN, Infinity, MinusInfinity}

\* The Float32Arrays of at most one such sample.
FloatBuffers == {<<>>} \cup {<<v>> : v \in FloatValues}

\* A buffer is converted with float32ToInt16.
applyConvert ==
  /\ result = <<>>
  /\ result' = <<float32ToInt16(arg)>>
  /\ UNCHANGED <<cfgVars, arg, status, now, resVars, pbVars, txVars, fxVars, startPc,
                 error, outVars>>

InitConvert == HookInit /\ arg \in FloatBuffers /\ result = <<>>

SpecConvert == InitConvert /\ [][applyConvert]_vars

\* =================================================================== claims
Count(S) == Cardinality(S)

\* ---- C1
\* The calls issued for the transcript entry (message object) with identity r.
CallsFor(r) == {j \in DOMAIN calls : calls[j].ref = r}

\* C1: every transcript entry whose directive has the trigger flag set gets
\* exactly one callEmergencyContact invocation: never more than one, and one
\* as soon as the effect has processed the transcript it is in.
C1_ExactlyOneCallPerEntry ==
  \A i \in DOMAIN messages :
    parsed(messages[i]).triggerCall =>
      /\ Count(CallsFor(messages[i].ref)) <= 1
      /\ ~effectPending => Count(CallsFor(messages[i].ref)) = 1

\* ---- C2
\* The segments of suspended loops that sound: their context is still open.
Audible == {p \in playing : p.ctx \in pbOpen}

\* C2: at most one playback loop is active with a segment playing on an open
\* output context, under any interleaving of chunks, segment ends,
\* interruptions, stop() and start().
C2_AtMostOneSegmentPlaying == Count(Audible) <= 1

\* ---- C3
\* C3: of the segments enqueued since the last interruption or stop(), no one
\* starts before the one started before it has ended: at most one of them is
\* playing at any time.
C3_RunPlaysWithoutOverlap ==
  Count({p \in Audible : p.seg > runStart}) <= 1

\* ---- C4
\* C4: an interruption processed while status is listening or speaking leaves
\* status listening and the pending queue empty; and as a segment starts only
\* out of the pending queue (or is the chunk just received), and the queue
\* grows only by the chunk just received, nothing dropped starts later.
C4_InterruptionFlushes ==
  [][ /\ \A k \in Starts :
           (status \in {"listening", "speaking"} /\ wsOnMessage(k, "interruption", ""))
             => (status' = "listening" /\ audioQueueRef' = <<>>)
      /\ \A p \in playing' \ playing : p.seg \in Range(audioQueueRef) \cup {nseg + 1}
      /\ Range(audioQueueRef') \subseteq Range(audioQueueRef) \cup {nseg + 1}
    ]_vars

\* Segment 1 is playing, segment 2 was queued behind it and an interruption
\* dropped it (no stop(): the first playback context is still the current one).
C4_Witness ==
  /\ status = "listening" /\ nseg = 2 /\ runStart = 2
  /\ playing = {[seg |-> 1, ctx |-> 1]} /\ isPlayingRef
  /\ audioQueueRef = <<>> /\ playbackContextRef = 1

\* ---- C5
\* C5: without a configured identity every start() fails with the
\* configuration error and changes nothing else: status stays disconnected,
\* the transcript is untouched, no microphone, context or socket is acquired.
C5_StartWithoutConfigFails ==
  [][ (~apiKey \/ ~agentId) =>
        /\ start => error' = "ElevenLabs configuration missing"
        /\ status = "disconnected"
        /\ UNCHANGED <<status, resVars, pbVars, txVars, fxVars, startPc>>
    ]_vars

C5_Witness ==
  /\ apiKey /\ ~agentId
  /\ error = "ElevenLabs configuration missing"
  /\ status = "disconnected" /\ micLive = {} /\ wsRef = 0

C7_StopIdempotent ==
  LET once  == stopResult(HookState)
      twice == stopResult(once)
  IN ~once.thrown /\ ~twice.thrown /\ twice = once

\* A state a stop() has left (its socket is still closing) on which stop()
\* changes nothing.
C7_Witness ==
  /\ stopResult(HookState) = HookState
  /\ \E k \in Starts : wsState[k] = "CLOSING"
  /\ npb = 2 /\ playing # {}

\* ---- C8
\* C8: a transport error or close event processed in a non-disconnected state
\* releases the capture and playback resources, closes and clears the socket
\* handle, and sets status disconnected.
C8_TransportDownReleases ==
  [][ \A k \in Starts :
        (status # "disconnected" /\ (wsOnError(k) \/ wsOnClose(k))) =>
          /\ status' = "disconnected"
          /\ mediaStreamRef' = 0 /\ micLive' = {}
          /\ audioContextRef' = 0 /\ ctxOpen' = {}
          /\ playbackContextRef' = 0 /\ pbOpen' = {} /\ audioQueueRef' = <<>>
          /\ wsRef' = 0
    ]_vars

\* ---- C9
\* C9: at most one socket is connecting or open and at most one microphone
\* stream is live, in every reachable state.
C9_OneTransportOneMicrophone ==
  /\ Count({k \in Starts : wsState[k] \in {"CONNECTING", "OPEN"}}) <= 1
  /\ Count(micLive) <= 1

\* ---- C10
\* C10: after stop(), no callback of the stopped session (the close or error
\* handler of the socket stop() closed, the continuation of a loop whose
\* context stop() closed) changes status, transcript, queue or loop flag.
C10_StoppedCallbacksInert ==
  [][ /\ \A k \in Starts :
           (wsState[k] = "CLOSING" /\ wsRef # k /\ (wsOnError(k) \/ wsOnClose(k)))
             => UNCHANGED <<status, messages, audioQueueRef, isPlayingRef>>
      /\ \A p \in playing :
           (p.ctx \notin pbOpen /\ segmentEnded(p))
             => UNCHANGED <<status, messages, audioQueueRef, isPlayingRef>>
    ]_vars

\* ---- C11
\* The edges of the status enumeration, besides the return to disconnected.
StatusEdges ==
  {<<"disconnected", "connecting">>, <<"connecting", "connected">>,
   <<"connected", "listening">>, <<"listening", "speaking">>,
   <<"speaking", "listening">>}

\* C11: every step that changes status moves it along one of the edges
\* disconnected->connecting, connecting->connected, connected->listening,
\* listening->speaking, speaking->listening or to disconnected, and status
\* leaves disconnected only in a step of start().
C11_StatusFollowsEdges ==
  [][status' # status =>
       /\ status' = "disconnected" \/ <<status, status'>> \in StatusEdges
       /\ status = "disconnected" => start
    ]_vars

\* ---- C12
IsPrefix(a, b) == Len(a) <= Len(b) /\ SubSeq(b, 1, Len(a)) = a

\* C12: between two start() calls the transcript is append-only: in every
\* step that is not a step of start() (an inbound message, sendUserText,
\* stop(), a transport close or error, any other handler) the transcript
\* before the step is a prefix of the transcript after it.
C12_TranscriptAppendOnly ==
  [][start \/ IsPrefix(messages, messages')]_vars

\* Two entries were appended and the session was then stopped.
C12_Witness ==
  /\ Len(messages) = 2
  /\ status = "disconnected" /\ wsRef = 0
  /\ \E k \in Starts : wsState[k] = "CLOSED"

\* ---- C13
\* C13: in every reachable state no two entries of the transcript have the
\* same identifier.
C13_UniqueIds ==
  \A i, j \in DOMAIN messages : i # j => messages[i].id # messages[j].id

\* ---- C14
\* C14: in every reachable state in which no transport is open (never
\* started, still connecting, closed by the remote, stopped), sendUserText
\* with any text returns the hook state it was called in: nothing sent,
\* nothing appended, status as before, nothing thrown.
C14_SendUserTextWithoutTransport ==
  \A tx \in UserTexts :
    ~transportOpen(HookState)
      => sendUserTextResult(HookState, newMessage("user", tx)) = HookState

\* The remote closed a socket that had been open and had carried typed text;
\* sendUserText is then called again.
C14_Witness ==
  /\ wsRef # 0 /\ wsState[wsRef] = "CLOSED"
  /\ \E i \in DOMAIN sent[wsRef] : sent[wsRef][i].type = "user_message"
  /\ messages # <<>>
  /\ sendUserTextResult(HookState, newMessage("user", "more")) = HookState

\* ---- C15
\* C15: every step in which socket k delivers a ping adds exactly one pong
\* to what was sent on socket k, sends nothing on any other socket, and
\* leaves status, transcript and playback queue unchanged.
C15_PingAnsweredOnSameTransport ==
  [][\A k \in Starts :
       pingsFrom'[k] = pingsFrom[k] + 1
         => /\ sent'[k] = Append(sent[k], PongFrame)
            /\ \A j \in Starts \ {k} : sent'[j] = sent[j]
            /\ UNCHANGED <<status, messages, audioQueueRef>>
    ]_vars

\* ---- C16
\* Frames that JSON.parse rejects, of a type the switch does not know, of
\* type error, and audio frames whose chunk base64ToFloat32 cannot decode.
BadFrames ==
  {<<"malformed", "">>, <<"unknown", "">>, <<"error", "">>} \cup
  {<<"audio", a>> : a \in {b \in AudioPayloads : base64ToFloat32(b).thrown}}

\* C16: in every reachable state, handling a malformed frame, a frame of an
\* unrecognized type, an error frame or an audio frame that cannot be decoded
\* changes nothing: status, transcript, playback queue and every resource
\* handle stay as they are, so whatever arrives next is handled as if the
\* frame had never come.
C16_BadFramesChangeNothing ==
  \A k \in Starts, f \in BadFrames :
    ~ENABLED (wsOnMessage(k, f[1], f[2]) /\ vars' # vars)

\* A session in full swing (speaking, a segment playing, another queued) in
\* which such a frame can arrive.
C16_Witness ==
  \E k \in Starts :
    /\ wsRef = k /\ wsState[k] = "OPEN" /\ status = "speaking"
    /\ isPlayingRef /\ audioQueueRef # <<>> /\ playing # {}
    /\ \A f \in BadFrames : ENABLED wsOnMessage(k, f[1], f[2])

\* ---- C17
\* C17: every segment in the pending queue eventually leaves it: the loop
\* starts it, or an interruption or stop() removes it.
C17_QueuedEventuallyStarted ==
  \A s \in 1..MaxSegs :
    (s \in Range(audioQueueRef)) ~> (s \notin Range(audioQueueRef))

\* ---- C18
\* C18: the telephony calls are issued in the order in which their entries
\* were appended to the transcript: of any two calls, the one issued first
\* is for the entry appended first.
C18_CallsInTranscriptOrder ==
  \A i, j \in DOMAIN calls : i < j => calls[i].ref < calls[j].ref

\* One pass of the effect saw two triggering entries for the first time and
\* issued the calls for both.
C18_Witness ==
  /\ Len(calls) = 2
  /\ calls[1].pass = calls[2].pass
  /\ calls[1].ref # calls[2].ref

\* ---- C19
\* A telephony or logging request is still on its way.
Pending == \E i \in DOMAIN calls : calls[i].pc # "done"

\* C19: a step in which a telephony or logging request completes, whatever
\* its outcome, leaves status and transcript unchanged and lets no exception
\* escape; and while such a request is pending every open socket's frames
\* are still handled.
C19_SideEffectFailuresContained ==
  /\ [][\A i \in DOMAIN calls :
         (i \in DOMAIN calls' /\ calls'[i] # calls[i])
           => /\ UNCHANGED <<status, messages>>
              /\ ~calls'[i].thrown
      ]_vars
  /\ [](\A k \in Starts :
         (Pending /\ wsState[k] = "OPEN")
           => \A f \in ControlFrames : ENABLED wsOnMessage(k, f[1], f[2]))

\* The telephony request of a triggering entry failed while the session went
\* on: a later entry was appended before the request settled.
C19_Witness ==
  /\ Len(calls) = 1 /\ calls[1].pc = "done" /\ ~calls[1].success
  /\ Len(messages) = 2 /\ messages[1].ref = calls[1].ref
  /\ status = "speaking"

\* ---- C20
\* C20: on every socket the first message sent is the initiation message and
\* it is the only initiation message sent there, so no audio, user-text or
\* pong message precedes it; a socket that has opened has sent it.
C20_InitiationFirstAndOnce ==
  \A k \in Starts :
    /\ sent[k] # <<>> => sent[k][1] = InitFrame
    /\ \A i \in DOMAIN sent[k] : sent[k][i] = InitFrame => i = 1
    /\ wsState[k] = "OPEN" => sent[k] # <<>>

\* A socket that has carried the initiation message, a pong and typed text.
C20_Witness ==
  \E k \in Starts :
    /\ Len(sent[k]) = 3
    /\ {sent[k][i].type : i \in 2..3} = {"pong", "user_message"}

DropFirst(t, n) == SubSeq(t, n + 1, Len(t))

\* C22: parseAssistantMessage turns the README's example into triggerCall
\* true, text "Patient unconscious" and the resources CPR Guide / https://x
\* and Poison Control / 1-800-222-1222; and for every text, the trigger flag
\* is whether the text starts with the call tag, whatever its links section,
\* and the resources of a text with the call tag in front are those of the
\* text without it.
C22_BothTagsParsed ==
  result # <<>> =>
    /\ arg = ReadmeExample =>
          result[1] = [text        |-> "Patient unconscious",
                       resources   |-> <<[label |-> "CPR Guide",
                                          description |-> "https://x"],
                                         [label |-> "Poison Control",
                                          description |-> "1-800-222-1222"]>>,
                       triggerCall |-> TRUE]
    /\ result[1].triggerCall = startsWith(arg, CALL_TAG)
    /\ startsWith(arg, CALL_TAG) =>
          result[1].resources
            = parseAssistantMessage(DropFirst(arg, Len(CALL_TAG))).resources

\* A text with both tags and a two-part links section has been parsed.
C22_Witness ==
  /\ result # <<>>
  /\ startsWith(arg, CALL_TAG) /\ indexOf(arg, LINKS_TAG) > 0
  /\ Len(result[1].resources) = 2

\* ---- C23
\* C23: for a text that contains neither tag, parseAssistantMessage returns
\* triggerCall false, no resources, and the text itself, white space at its
\* ends included.
C23_PlainTextUntouched ==
  (result # <<>> /\ indexOf(arg, CALL_TAG) = 0 /\ indexOf(arg, LINKS_TAG) = 0)
    => result[1] = [text |-> arg, resources |-> <<>>, triggerCall |-> FALSE]

\* A text without tags that begins and ends with white space has been parsed.
C23_Witness ==
  /\ result # <<>>
  /\ indexOf(arg, CALL_TAG) = 0 /\ indexOf(arg, LINKS_TAG) = 0
  /\ Len(arg) = 3 /\ SubSeq(arg, 1, 1) = " " /\ SubSeq(arg, 3, 3) = " "

\* ---- C24
\* C24: decoding what int16ToBase64 made of a buffer b does not throw and
\* gives as many samples as b has, the i-th being b[i] / 32768.
C24_CodecRoundTrip ==
  result # <<>> =>
    /\ ~result[1].thrown
    /\ Len(result[1].samples) = Len(arg)
    /\ \A i \in 1..Len(arg) : result[1].samples[i] = Float(arg[i])

\* A buffer of two samples of opposite sign, whose low and high bytes differ,
\* has made the round trip.
C24_Witness ==
  /\ result # <<>>
  /\ arg = <<-32768, 255>>

\* ---- C25
\* C25: every sample float32ToInt16 produces lies in -32768..32767; a sample
\* of 1 or more gives 32767, a sample of -1 or less gives -32768, and no
\* sample comes out with the opposite sign (nothing wraps around).
C25_ConversionClamps ==
  result # <<>> =>
    /\ Len(result[1]) = Len(arg)
    /\ \A i \in 1..Len(arg) :
         LET v == arg[i]
             r == result[1][i]
         IN /\ r \in -32768..32767
            /\ ~lessThan(v, Finite(1, 1)) /\ v.kind # "nan" => r = 32767
            /\ ~lessThan(Finite(-1, 1), v) /\ v.kind # "nan" => r = -32768
            /\ lessThan(Finite(0, 1), v) => r >= 0
            /\ lessThan(v, Finite(0, 1)) => r <= 0

\* A finite sample above 1 whose scaled value would not fit 16 bits has been
\* converted.
C25_Witness ==
  /\ result # <<>>
  /\ arg # <<>>
  /\ arg[1].kind = "finite"
  /\ arg[1].num * 32767 > 32767 * arg[1].den

\* ---- C26
\* C26: when start() fails after the configuration check (the microphone is
\* refused, or creating the audio context or the socket throws), status is
\* disconnected afterwards, the caller has the error, and the microphone
\* stream, audio context and socket of that start are not held.
C26_FailedStartHoldsNothing ==
  [][ \A k \in Starts :
        (\E outcome \in StartOutcomes \ {"ok"} : startContinue(k, outcome)) =>
          /\ status' = "disconnected"
          /\ error' # "null"
          /\ k \notin micLive' /\ mediaStreamRef' # k
          /\ k \notin ctxOpen' /\ audioContextRef' # k
          /\ wsState'[k] \notin {"CONNECTING", "OPEN"} /\ wsRef' # k
    ]_vars

\* ---- C27
\* C27: while the socket is open and status is connected or listening, a
\* block captured by a live capture pipeline is sent: the callback appends
\* exactly one audio frame to what went out on the socket.
C27_CapturedBlocksSent ==
  \A k \in ctxOpen :
    ( /\ transportOpen(HookState)
      /\ status \in {"connected", "listening"}
      /\ Len(sent[wsRef]) < MaxSent )
      => ENABLED (onaudioprocess(k) /\ sent' = [sent EXCEPT ![wsRef] = Append(@, AudioFrame)])

\* ---- C28
\* C28: the identifier of an entry is in the dedup set from the step in which
\* its call is issued, whatever the call does afterwards, and no pass of the
\* effect issues a second call for an entry that already has one, be that
\* call pending, failed or done.
C28_DedupBeforeSuspension ==
  /\ \A i \in DOMAIN calls : calls[i].id \in processedCallsRef
  /\ \A i, j \in DOMAIN calls : calls[i].ref = calls[j].ref => i = j

\* The effect has run again over a transcript that still holds an entry whose
\* call is pending: it issued the call of a later entry and no second call
\* for the first.
C28_Witness ==
  \E i, j \in DOMAIN calls :
    /\ calls[i].pc = "fetching"
    /\ calls[j].pass > calls[i].pass
    /\ \E m \in DOMAIN messages : messages[m].ref = calls[i].ref

\* ---- C29
\* C29: an interruption processed while the loop is suspended on a playing
\* segment leaves that segment playing and the loop flag set; and a segment
\* enqueued after the interruption is never playing on the output context
\* together with a segment that was in progress when the interruption came.
C29_InterruptionSparesSegment ==
  /\ [][ \A k \in Starts :
           (isPlayingRef /\ playing # {} /\ wsOnMessage(k, "interruption", ""))
             => (isPlayingRef' /\ playing' = playing)
      ]_vars
  /\ [](\A p, q \in playing :
         ~(p.ctx = q.ctx /\ p.seg <= runStart /\ runStart < q.seg))

\* ---- C30
\* C30: a chunk is never waiting in the queue without an open playback
\* context in playbackContextRef; every enqueue leaves such a context there,
\* also the first one after stop() closed and cleared it; and every pass of
\* the loop that shifts a segment off the queue finds one.
C30_LoopHasOutputContext ==
  /\ [](audioQueueRef # <<>> =>
          playbackContextRef # 0 /\ playbackContextRef \in pbOpen)
  /\ [][ /\ nseg' > nseg =>
             playbackContextRef' # 0 /\ playbackContextRef' \in pbOpen'
         /\ (\E p \in playing : segmentEnded(p) /\ audioQueueRef # <<>>) =>
             playbackContextRef # 0 /\ playbackContextRef \in pbOpen
         /\ \A p \in playing' \ playing : p.ctx # 0 /\ p.ctx \in pbOpen'
      ]_vars

\* After a stop() closed the first playback context, a chunk of the next
\* session is playing on a second one that its enqueue created.
C30_Witness ==
  /\ playbackContextRef = 2 /\ pbOpen = {2}
  /\ \E p \in playing : p.ctx = 2

\* ---- C31
\* C31: a sendUserText(text) called while the socket is open sends, in that
\* one step, exactly one user_message frame carrying text on that socket and
\* nothing on any other, and appends exactly one user entry with that text to
\* the end of the transcript; status is unchanged.
C31_SendUserTextOptimistic ==
  [][ \A tx \in UserTexts :
        (transportOpen(HookState) /\ sendUserText(tx)) =>
          /\ sent'[wsRef] = Append(sent[wsRef], UserFrame(tx))
          /\ \A j \in Starts \ {wsRef} : sent'[j] = sent[j]
          /\ Len(messages') = Len(messages) + 1
          /\ SubSeq(messages', 1, Len(messages)) = messages
          /\ messages'[Len(messages')].role = "user"
          /\ messages'[Len(messages')].text = tx
          /\ status' = status
    ]_vars

\* Typed text has just gone out on the open socket of a session that is
\* listening, and is the last entry of the transcript.
C31_Witness ==
  /\ transportOpen(HookState) /\ status = "listening"
  /\ messages # <<>> /\ sent[wsRef] # <<>>
  /\ messages[Len(messages)].role = "user"
  /\ sent[wsRef][Len(sent[wsRef])] = UserFrame(messages[Len(messages)].text)

\* ---- C32
\* The transcript after the step is the one before it plus one entry of the
\* given role and text at its end.
AppendsOne(role, tx) ==
  /\ Len(messages') = Len(messages) + 1
  /\ SubSeq(messages', 1, Len(messages)) = messages
  /\ messages'[Len(messages')].role = role
  /\ messages'[Len(messages')].text = tx

\* C32 as stated: every agent_response frame appends exactly one assistant
\* entry carrying its text to the end of the transcript and sets status to
\* speaking.
C32_EveryAssistantTextAppends ==
  [][ \A k \in Starts, tx \in AssistantTexts :
        wsOnMessage(k, "agent_response", tx) =>
          (AppendsOne("assistant", tx) /\ status' = "speaking")
    ]_vars

\* C32, amended: every agent_response frame sets status to speaking; one that
\* carries a non-empty text appends exactly one assistant entry with that
\* text to the end of the transcript, and one whose text is absent or empty
\* leaves the transcript as it is.
C32_AssistantTextAppends ==
  [][ \A k \in Starts, tx \in AssistantTexts :
        wsOnMessage(k, "agent_response", tx) =>
          /\ status' = "speaking"
          /\ IF tx # "" THEN AppendsOne("assistant", tx) ELSE messages' = messages
    ]_vars

\* Two assistant texts have arrived in a row: the transcript holds both, in
\* order, and the assistant is speaking.
C32_Witness ==
  /\ status = "speaking" /\ Len(messages) = 2
  /\ \A i \in 1..2 : messages[i].role = "assistant"
  /\ messages[1].text # messages[2].text

\* ---- C33
\* The step hands exactly one new segment to the playback scheduler: it is
\* queued, or started, or (having no samples) dropped by the loop.
EnqueuesOne ==
  /\ nseg' = nseg + 1
  /\ \/ nseg + 1 \in Range(audioQueueRef')
     \/ \E p \in playing' : p.seg = nseg + 1
     \/ nseg + 1 \in emptySegs'

\* Audio payloads, the absent or empty one included, and those of them that
\* the audio case decodes.
Chunks == AudioPayloads \cup {NoChunk}
Decodable == {a \in Chunks : a # NoChunk /\ ~base64ToFloat32(a).thrown}

\* C33 as stated: every audio frame hands exactly one decoded segment to the
\* playback scheduler and leaves status and transcript unchanged; every
\* user_transcript frame appends exactly one user entry and leaves status
\* and the playback queue unchanged.
C33_EveryFrameHasItsEffect ==
  \A k \in Starts :
    /\ \A a \in Chunks :
         (wsState[k] = "OPEN" /\ nseg < MaxSegs) =>
           ENABLED (wsOnMessage(k, "audio", a) /\ EnqueuesOne
                    /\ UNCHANGED <<status, messages>>)
    /\ \A tx \in UserTexts :
         (wsState[k] = "OPEN" /\ nmsg < MaxMsgs) =>
           ENABLED (wsOnMessage(k, "user_transcript", tx) /\ AppendsOne("user", tx)
                    /\ UNCHANGED <<status, audioQueueRef>>)

\* C33, amended: an audio frame whose chunk is non-empty and decodes hands
\* exactly one segment to the playback scheduler and leaves status and
\* transcript unchanged, and any other audio frame changes nothing; a
\* user_transcript frame with a non-empty text appends exactly one user entry
\* and leaves status and the playback state unchanged, and one without a
\* text changes nothing.  (The frame can be handled, and cannot be handled
\* in any other way.)
C33_FrameEffects ==
  \A k \in Starts :
    /\ \A a \in Decodable :
         /\ (wsState[k] = "OPEN" /\ nseg < MaxSegs) =>
               ENABLED (wsOnMessage(k, "audio", a) /\ EnqueuesOne
                        /\ UNCHANGED <<status, messages>>)
         /\ ~ENABLED (wsOnMessage(k, "audio", a)
                      /\ ~(EnqueuesOne /\ UNCHANGED <<status, messages>>))
    /\ \A a \in Chunks \ Decodable :
         ~ENABLED (wsOnMessage(k, "audio", a) /\ vars' # vars)
    /\ \A tx \in UserTexts \ {""} :
         /\ (wsState[k] = "OPEN" /\ nmsg < MaxMsgs) =>
               ENABLED (wsOnMessage(k, "user_transcript", tx) /\ AppendsOne("user", tx)
                        /\ UNCHANGED <<status, pbVars>>)
         /\ ~ENABLED (wsOnMessage(k, "user_transcript", tx)
                      /\ ~(AppendsOne("user", tx) /\ UNCHANGED <<status, pbVars>>))
    /\ ~ENABLED (wsOnMessage(k, "user_transcript", "") /\ vars' # vars)

\* While a segment plays and the assistant's status is speaking, a second
\* chunk has been queued behind it and a transcript of the user's speech is
\* the last entry.
C33_Witness ==
  /\ status = "speaking" /\ isPlayingRef
  /\ playing # {} /\ audioQueueRef # <<>>
  /\ messages # <<>> /\ messages[Len(messages)].role = "user"

\* ---- C34
\* How often p occurs in t.
Occurrences(t, p) ==
  Cardinality({i \in 1..(Len(t) - Len(p) + 1) : SubSeq(t, i, i + Len(p) - 1) = p})

\* The part of t in front of its links section: in front of the first links
\* marker if something follows that marker, else all of t.
BeforeLinks(t) ==
  LET at == indexOf(t, LINKS_TAG)
  IN IF at > 0 /\ at + Len(LINKS_TAG) <= Len(t) THEN SubSeq(t, 1, at - 1) ELSE t

\* C34 as stated: a text that holds the trigger marker, but not at position
\* 0, parses to triggerCall = FALSE with the marker still in the display
\* text; a text that starts with it loses exactly that one occurrence and
\* keeps the later ones in the display text.
C34_MarkerStaysInDisplayText ==
  (result # <<>> /\ indexOf(arg, CALL_TAG) > 0) =>
    IF startsWith(arg, CALL_TAG)
    THEN /\ result[1].triggerCall
         /\ Occurrences(result[1].text, CALL_TAG) = Occurrences(arg, CALL_TAG) - 1
    ELSE /\ ~result[1].triggerCall
         /\ indexOf(result[1].text, CALL_TAG) > 0

\* C34, amended: the trigger marker is recognized only at position 0.  A
\* text that holds it elsewhere only, also after leading white space,
\* parses to triggerCall = FALSE and none of its occurrences is removed as a
\* marker: those in front of the links section are in the display text.  A
\* text that starts with it parses to triggerCall = TRUE and only that one
\* occurrence is removed: those of the rest that are in front of the links
\* section are in the display text.  (Occurrences inside the links section
\* leave the display text with that section.)
C34_PrefixOnlyTrigger ==
  (result # <<>> /\ indexOf(arg, CALL_TAG) > 0) =>
    IF startsWith(arg, CALL_TAG)
    THEN /\ result[1].triggerCall
         /\ Occurrences(result[1].text, CALL_TAG)
              = Occurrences(BeforeLinks(trim(DropFirst(arg, Len(CALL_TAG)))), CALL_TAG)
         /\ indexOf(arg, LINKS_TAG) = 0 =>
              Occurrences(result[1].text, CALL_TAG) = Occurrences(arg, CALL_TAG) - 1
    ELSE /\ ~result[1].triggerCall
         /\ Occurrences(result[1].text, CALL_TAG)
              = Occurrences(BeforeLinks(arg), CALL_TAG)
         /\ indexOf(arg, LINKS_TAG) = 0 => result[1].text = arg

\* A text with the marker behind leading white space has been parsed.
C34_Witness ==
  /\ result # <<>>
  /\ ~startsWith(arg, CALL_TAG)
  /\ startsWith(trim(arg), CALL_TAG)
  /\ ~result[1].triggerCall

\* ---- C35
\* What follows the first links marker of t.
AfterLinks(t) == DropFirst(t, indexOf(t, LINKS_TAG) + Len(LINKS_TAG) - 1)

\* The items of a links section: its parts between semicolons that are not
\* blank.
Items(section) == SelectSeq(split(section, ";"), LAMBDA p : trim(p) # "")

\* The resource an item stands for: split at the first colon, the label
\* "Resource" when empty, the description "" without a colon.
ResourceOf(item) ==
  LET c == indexOf(item, ":")
      label == trim(IF c = 0 THEN item ELSE SubSeq(item, 1, c - 1))
  IN [label       |-> IF label = "" THEN "Resource" ELSE label,
      description |-> IF c = 0 THEN "" ELSE trim(DropFirst(item, c))]

\* C35: for every text containing the links marker, the display text is the
\* trimmed part before the first links marker, also when nothing follows the
\* marker, and the resources are the non-blank semicolon-separated items
\* after it, each split on its first colon into label and description, the
\* label "Resource" when empty and the description "" without a colon.  (The
\* text is taken as the trigger rule leaves it, which is applied first.)
C35_LinksSectionParsed ==
  (result # <<>> /\ indexOf(arg, LINKS_TAG) > 0) =>
    LET t == IF startsWith(arg, CALL_TAG)
             THEN trim(DropFirst(arg, Len(CALL_TAG))) ELSE arg
        items == Items(AfterLinks(t))
    IN /\ result[1].text = trim(SubSeq(t, 1, indexOf(t, LINKS_TAG) - 1))
       /\ result[1].resources = [i \in 1..Len(items) |-> ResourceOf(items[i])]

\* ---- C36
\* C36: the dedup set is per session: a start() that passes the configuration
\* check begins the new session with an empty dedup set, so no identifier
\* recorded in an earlier session can suppress a triggering entry of the new
\* one.
C36_DedupSetPerSession ==
  [][(~configMissing /\ start) => processedCallsRef' = {}]_vars

\* ---- C37
\* C37: a close or error event of a socket that is not the current one
\* (closed by an earlier stop(), or replaced by a later start()) leaves the
\* status of the session that is active now as it is.
C37_StaleTransportEventsInert ==
  [][\A k \in Starts :
       (status # "disconnected" /\ wsRef # k /\ (wsOnError(k) \/ wsOnClose(k)))
         => status' = status]_vars

\* ---- C38
\* C38: in every reachable state isPlayingRef is true exactly when a playback
\* loop is active, that is, has started draining and is suspended until its
\* segment ends.
C38_FlagIffLoopActive == isPlayingRef <=> playing # {}

\* ---- C39
\* C39: only assistant entries can cause a call: a user entry, also one whose
\* text begins with the trigger marker, is shown as it is with no trigger
\* flag and no resources, and every call ever issued and every identifier
\* in the dedup set belongs to an assistant entry.
C39_OnlyAssistantEntriesCall ==
  /\ \A i \in DOMAIN messages :
       messages[i].role = "user" =>
         parsed(messages[i])
           = [text |-> messages[i].text, resources |-> <<>>, triggerCall |-> FALSE]
  /\ \A i \in DOMAIN calls : calls[i].id[1] = "assistant"
  /\ \A id \in processedCallsRef : id[1] = "assistant"

\* The effect has run over a transcript that holds a transcribed and a typed
\* user entry, both beginning with the trigger marker, and no call was made.
C39_Witness ==
  /\ ~effectPending /\ calls = <<>> /\ processedCallsRef = {}
  /\ Len(messages) = 2
  /\ \A i \in DOMAIN messages :
       messages[i].role = "user" /\ startsWith(messages[i].text, CALL_TAG)
  /\ Len(sent[wsRef]) = 2

\* ---- C40
\* C40: the transcript is emptied only by a start() that passes the
\* configuration check.  Every such start() leaves it empty, in the step in
\* which it sets status connecting, so before any entry of the new session;
\* stop(), a socket's close or error event and a start() that fails the
\* configuration check leave it as it was; and every other step leaves it as
\* it was or longer by entries appended at its end.
C40_OnlyStartEmptiesTranscript ==
  [][ /\ (~configMissing /\ start) => messages' = <<>>
      /\ (configMissing /\ start) => messages' = messages
      /\ stop => messages' = messages
      /\ \A k \in Starts : (wsOnError(k) \/ wsOnClose(k)) => messages' = messages
      /\ ~IsPrefix(messages, messages') => (~configMissing /\ start)
    ]_vars

\* The first session's entry was dropped by the second start(); the second
\* session got an entry of its own, which is still there after it ended.
C40_Witness ==
  /\ startPc[2] = "ended" /\ status = "disconnected" /\ wsRef = 0
  /\ nmsg = 2 /\ Len(messages) = 1 /\ messages[1].ref = 2
====
